---- MODULE Spec2Model ----
(***************************************************************************)
(* Model of the two lab scripts of rdb_indices_batch:                      *)
(*   batch_inserts.py  four insert strategies against a PostgreSQL table   *)
(*                     `records` through one psycopg connection;           *)
(*   indices.py        a SQLite file with a `students` table, queried      *)
(*                     before and after CREATE INDEX.                      *)
(* Rows of `records` are random and independent, so the table is modelled  *)
(* by its number of rows; rows of `students` are modelled with their       *)
(* contents.  Loop sizes of the scripts (10,000 / 1,000 / 1,000,000 /      *)
(* 20,000,000) are scaled down to the bounds below.                        *)
(***************************************************************************)
EXTENDS Integers, Sequences, FiniteSets

\* ------------------------------------------------------------------ bounds
\* range(10000) of Step 1, scaled
Step1Rows == 3
\* range(10000) of Step 2, scaled
Step2Rows == 3
\* batch_size is drawn from 1..MaxBatchSize (1000 in the script)
MaxBatchSize == 3
\* nr_batches is drawn from 1..MaxBatches (1000 in the script)
MaxBatches == 3
\* nr_records is drawn from 1..MaxRecords (1000000 in the script)
MaxRecords == 3
\* number of times the script is started against the same database
MaxRuns == 2
\* number of interruptions of the Step 3 cell on a live connection
MaxInterrupts == 2
\* the generation size of indices.py is drawn from 0..MaxN
MaxN == 85
\* number of times indices.py is started in the same directory
MaxIdxRuns == 3

VARIABLES
    \* --- batch_inserts.py: the PostgreSQL server
    tableExists,   \* the table `records` exists
    committed,     \* number of committed rows of `records`
    \* --- batch_inserts.py: the connection `conn`
    connOpen,      \* conn is connected
    tx,            \* transaction status of conn: "IDLE", "INTRANS", "INERROR"
    pending,       \* rows inserted by conn's open transaction
    lastError,     \* the last exception raised by the driver
    \* --- batch_inserts.py: the script
    pc,            \* position in the script
    i,             \* loop variable of Step 1 / Step 2
    batch_size,
    nr_batches,
    batch,         \* loop variable of Step 3
    new_rows,      \* len(new_rows) of the current batch
    printed,       \* the record count Step 3 printed, -1 before
    nr_records,
    records,       \* len(records) of Step 4
    written,       \* rows passed to copy.write_row so far
    run,           \* how many times the script was started
    interrupts,    \* how many times the Step 3 cell was interrupted
    \* --- history of the current step, for stating the properties
    base,          \* rows conn saw in `records` when the step began
    generated,     \* rows generated by the step so far
    commits,       \* conn.commit() calls of the step so far
    \* --- indices.py: the file DB_NAME
    fileExists,    \* test_database.db exists
    hasTable,      \* the file holds the table students
    students,      \* the committed rows of students, in rowid order
    hasIndex,      \* the file holds age_index
    age_index,     \* age_index: for each age, the rowids having it
    \* --- indices.py: the connection
    uncommitted,   \* rows inserted by the open transaction
    \* --- indices.py: the script
    ipc,           \* position in the script
    N,             \* the generation size, range(20000000) in the script
    si,            \* loop variable i of the populate loop
    results1,      \* fetchall() of the query without index
    results2,      \* fetchall() of the query with index
    sqlError,      \* the exception that ended the script, if any
    irun,          \* how many times the script was started
    stops          \* how many of these runs were stopped before their end

pgvars == <<tableExists, committed, connOpen, tx, pending, lastError, pc, i,
            batch_size, nr_batches, batch, new_rows, printed, nr_records,
            records, written, run, interrupts, base, generated, commits>>

idxvars == <<fileExists, hasTable, students, hasIndex, age_index, uncommitted,
             ipc, N, si, results1, results2, sqlError, irun, stops>>

vars == <<pgvars, idxvars>>

\* ------------------------------------------------------------- helpers

\* len(range(a, b))
RangeLen(a, b) == IF b > a THEN b - a ELSE 0

\* what SELECT count(*) FROM records returns on conn
Visible == committed + pending

\* ------------------------------------------------- driver and server

\* a variant of Execute that loses the first row of every statement
ExecuteLosesRow(n) ==
    IF n = 0
    THEN UNCHANGED <<tx, pending>>
    ELSE /\ tx' = "INTRANS"
         /\ pending' = pending + n - 1

\* cur.execute / cursor.executemany of n INSERTs on a usable connection:
\* the first statement implicitly begins a transaction.
Execute(n) ==
    IF n = 0
    THEN UNCHANGED <<tx, pending>>
    ELSE /\ tx' = "INTRANS"
         /\ pending' = pending + n

\* a variant of Commit that makes the rows of a failed transaction durable
CommitKeepsFailed ==
    /\ committed' = committed + pending
    /\ pending' = 0
    /\ tx' = "IDLE"

\* conn.commit(): ends the transaction.  A failed transaction is ended by
\* rolling it back.
Commit ==
    /\ committed' = IF tx = "INTRANS" THEN committed + pending ELSE committed
    /\ pending' = 0
    /\ tx' = "IDLE"

\* the server's end of a connection that goes away: the open transaction
\* is rolled back.
Disconnect ==
    /\ connOpen' = FALSE
    /\ pending' = 0
    /\ tx' = "IDLE"
    /\ UNCHANGED committed

\* a variant of CreateTableRows that drops an existing table and recreates
\* it: the table is empty either way
CreateTableDrops(exists, rows) == IF exists THEN 0 ELSE 0

\* CREATE TABLE IF NOT EXISTS records: the rows of an existing table stay.
CreateTableRows(exists, rows) == IF exists THEN rows ELSE 0

\* ------------------------------------------------------------- Init

PgInit ==
    /\ tableExists = FALSE
    /\ committed = 0
    /\ connOpen = FALSE
    /\ tx = "IDLE"
    /\ pending = 0
    /\ lastError = "none"
    /\ pc = "connect"
    /\ i = 0
    /\ batch_size \in 1..MaxBatchSize
    /\ nr_batches \in 1..MaxBatches
    /\ batch = 0
    /\ new_rows = 0
    /\ printed = -1
    /\ nr_records \in 1..MaxRecords
    /\ records = 0
    /\ written = 0
    /\ run = 1
    /\ interrupts = 0
    /\ base = 0
    /\ generated = 0
    /\ commits = 0

\* indices.py not started: no file in the working directory
IdxIdle ==
    /\ fileExists = FALSE
    /\ hasTable = FALSE
    /\ students = <<>>
    /\ hasIndex = FALSE
    /\ age_index = <<>>
    /\ uncommitted = <<>>
    /\ ipc = "remove"
    /\ N = 0
    /\ si = 0
    /\ results1 = <<>>
    /\ results2 = <<>>
    /\ sqlError = "none"
    /\ irun = 1
    /\ stops = 0

Init == PgInit /\ IdxIdle

\* ------------------------------------------------------------- actions

\* conn = connect(conn_info)
Connect ==
    /\ pc = "connect"
    /\ connOpen' = TRUE
    /\ tx' = "IDLE"
    /\ pending' = 0
    /\ pc' = "create"
    /\ UNCHANGED <<tableExists, committed, lastError, i, batch_size,
                   nr_batches, batch, new_rows, printed, nr_records, records,
                   written, run, interrupts, base, generated, commits>>
    /\ UNCHANGED idxvars

\* cur.execute("CREATE TABLE IF NOT EXISTS records ..."); conn.commit()
CreateTable ==
    /\ pc = "create"
    /\ tableExists' = TRUE
    /\ committed' = CreateTableRows(tableExists, committed)
    /\ pending' = 0
    /\ tx' = "IDLE"
    /\ pc' = "step1_exec"
    /\ i' = 0
    /\ base' = CreateTableRows(tableExists, committed)
    /\ generated' = 0
    /\ commits' = 0
    /\ UNCHANGED <<connOpen, lastError, batch_size, nr_batches, batch,
                   new_rows, printed, nr_records, records, written, run,
                   interrupts>>
    /\ UNCHANGED idxvars

\* Step 1, loop body up to cur.execute(INSERT ...)
Step1Exec ==
    /\ pc = "step1_exec"
    /\ Execute(1)
    /\ generated' = generated + 1
    /\ pc' = "step1_commit"
    /\ UNCHANGED <<tableExists, committed, connOpen, lastError, i, batch_size,
                   nr_batches, batch, new_rows, printed, nr_records, records,
                   written, run, interrupts, base, commits>>
    /\ UNCHANGED idxvars

\* Step 1, conn.commit() inside the loop, and the loop's next iteration
Step1Commit ==
    /\ pc = "step1_commit"
    /\ Commit
    /\ commits' = commits + 1
    /\ i' = i + 1
    /\ pc' = IF i + 1 < Step1Rows THEN "step1_exec" ELSE "step1_print"
    /\ UNCHANGED <<tableExists, connOpen, lastError, batch_size, nr_batches,
                   batch, new_rows, printed, nr_records, records, written,
                   run, interrupts, base, generated>>
    /\ UNCHANGED idxvars

\* print("Done ..."), then Step 2 begins
Step1Print ==
    /\ pc = "step1_print"
    /\ pc' = "step2_exec"
    /\ i' = 0
    /\ base' = Visible
    /\ generated' = 0
    /\ commits' = 0
    /\ UNCHANGED <<tableExists, committed, connOpen, tx, pending, lastError,
                   batch_size, nr_batches, batch, new_rows, printed,
                   nr_records, records, written, run, interrupts>>
    /\ UNCHANGED idxvars

\* a variant of Step2Exec that commits inside the loop, as Step 1 does
Step2ExecCommits ==
    /\ pc = "step2_exec"
    /\ committed' = committed + pending + 1
    /\ pending' = 0
    /\ tx' = "IDLE"
    /\ generated' = generated + 1
    /\ i' = i + 1
    /\ pc' = IF i + 1 < Step2Rows THEN "step2_exec" ELSE "step2_commit"
    /\ UNCHANGED <<tableExists, connOpen, lastError, batch_size,
                   nr_batches, batch, new_rows, printed, nr_records, records,
                   written, run, interrupts, base, commits>>
    /\ UNCHANGED idxvars

\* Step 2, loop body: cur.execute(INSERT ...), no commit
Step2Exec ==
    /\ pc = "step2_exec"
    /\ Execute(1)
    /\ generated' = generated + 1
    /\ i' = i + 1
    /\ pc' = IF i + 1 < Step2Rows THEN "step2_exec" ELSE "step2_commit"
    /\ UNCHANGED <<tableExists, committed, connOpen, lastError, batch_size,
                   nr_batches, batch, new_rows, printed, nr_records, records,
                   written, run, interrupts, base, commits>>
    /\ UNCHANGED idxvars

\* Step 2, conn.commit() after the loop
Step2Commit ==
    /\ pc = "step2_commit"
    /\ Commit
    /\ commits' = commits + 1
    /\ pc' = "step2_print"
    /\ UNCHANGED <<tableExists, connOpen, lastError, i, batch_size,
                   nr_batches, batch, new_rows, printed, nr_records, records,
                   written, run, interrupts, base, generated>>
    /\ UNCHANGED idxvars

\* print("Done ..."), then Step 3 begins: for batch in range(nr_batches)
Step2Print ==
    /\ pc = "step2_print"
    /\ pc' = "step3_exec"
    /\ batch' = 0
    /\ base' = Visible
    /\ generated' = 0
    /\ commits' = 0
    /\ UNCHANGED <<tableExists, committed, connOpen, tx, pending, lastError,
                   i, batch_size, nr_batches, new_rows, printed, nr_records,
                   records, written, run, interrupts>>
    /\ UNCHANGED idxvars

\* Step 3, loop body up to cursor.executemany(INSERT ..., new_rows).  On a
\* connection whose transaction has failed the statement is rejected with
\* InFailedSqlTransaction and the cell stops.
Step3Exec ==
    /\ pc = "step3_exec"
    /\ new_rows' = RangeLen(1, batch_size)
    /\ generated' = generated + RangeLen(1, batch_size)
    /\ IF tx = "INERROR" /\ RangeLen(1, batch_size) > 0
       THEN /\ lastError' = "InFailedSqlTransaction"
            /\ pc' = "interrupted"
            /\ UNCHANGED <<tx, pending>>
       ELSE /\ Execute(RangeLen(1, batch_size))
            /\ pc' = "step3_commit"
            /\ UNCHANGED lastError
    /\ UNCHANGED <<tableExists, committed, connOpen, i, batch_size,
                   nr_batches, batch, printed, nr_records, records, written,
                   run, interrupts, base, commits>>
    /\ UNCHANGED idxvars

\* Step 3, conn.commit() of the batch, and the loop's next iteration; after
\* the last iteration `batch` keeps its last value
Step3Commit ==
    /\ pc = "step3_commit"
    /\ Commit
    /\ commits' = commits + 1
    /\ batch' = IF batch + 1 < nr_batches THEN batch + 1 ELSE batch
    /\ pc' = IF batch + 1 < nr_batches THEN "step3_exec" ELSE "step3_print"
    /\ UNCHANGED <<tableExists, connOpen, lastError, i, batch_size,
                   nr_batches, new_rows, printed, nr_records, records,
                   written, run, interrupts, base, generated>>
    /\ UNCHANGED idxvars

\* the record count of print(f"inserted {batch * batch_size} records ...")
Step3Printed == batch * batch_size

\* Step 3's print, then Step 4 begins
Step3Print ==
    /\ pc = "step3_print"
    /\ printed' = Step3Printed
    /\ pc' = "step4_gen"
    /\ base' = Visible
    /\ generated' = 0
    /\ commits' = 0
    /\ UNCHANGED <<tableExists, committed, connOpen, tx, pending, lastError,
                   i, batch_size, nr_batches, batch, new_rows, nr_records,
                   records, written, run, interrupts>>
    /\ UNCHANGED idxvars

\* the Step 3 cell is interrupted while executemany runs: the statement is
\* cancelled after k rows and the transaction is left failed on the live
\* connection
Step3Fail ==
    /\ pc = "step3_exec"
    /\ tx # "INERROR"
    /\ interrupts < MaxInterrupts
    /\ RangeLen(1, batch_size) > 0
    /\ \E k \in 0..(RangeLen(1, batch_size) - 1) : pending' = pending + k
    /\ tx' = "INERROR"
    /\ lastError' = "QueryCanceled"
    /\ new_rows' = RangeLen(1, batch_size)
    /\ generated' = generated + RangeLen(1, batch_size)
    /\ interrupts' = interrupts + 1
    /\ pc' = "interrupted"
    /\ UNCHANGED <<tableExists, committed, connOpen, i, batch_size,
                   nr_batches, batch, printed, nr_records, records, written,
                   run, base, commits>>
    /\ UNCHANGED idxvars

\* the Step 3 cell is interrupted between executemany and conn.commit():
\* the transaction stays open on the live connection
Step3Interrupt ==
    /\ pc = "step3_commit"
    /\ interrupts < MaxInterrupts
    /\ lastError' = "KeyboardInterrupt"
    /\ interrupts' = interrupts + 1
    /\ pc' = "interrupted"
    /\ UNCHANGED <<tableExists, committed, connOpen, tx, pending, i,
                   batch_size, nr_batches, batch, new_rows, printed,
                   nr_records, records, written, run, base, generated,
                   commits>>
    /\ UNCHANGED idxvars

\* the operator's fix of the commentary: conn.commit()
OperatorCommit ==
    /\ pc = "interrupted"
    /\ Commit
    /\ UNCHANGED <<tableExists, connOpen, lastError, pc, i, batch_size,
                   nr_batches, batch, new_rows, printed, nr_records, records,
                   written, run, interrupts, base, generated, commits>>
    /\ UNCHANGED idxvars

\* the operator runs the Step 3 cell again on the same connection
RerunStep3 ==
    /\ pc = "interrupted"
    /\ pc' = "step3_exec"
    /\ batch' = 0
    /\ base' = IF tx = "INERROR" THEN committed ELSE Visible
    /\ generated' = 0
    /\ commits' = 0
    /\ UNCHANGED <<tableExists, committed, connOpen, tx, pending, lastError,
                   i, batch_size, nr_batches, new_rows, printed, nr_records,
                   records, written, run, interrupts>>
    /\ UNCHANGED idxvars

\* Step 4: records = [... for i in range(1, nr_records)]
Step4Gen ==
    /\ pc = "step4_gen"
    /\ records' = RangeLen(1, nr_records)
    /\ generated' = RangeLen(1, nr_records)
    /\ written' = 0
    /\ pc' = "step4_begin"
    /\ UNCHANGED <<tableExists, committed, connOpen, tx, pending, lastError,
                   i, batch_size, nr_batches, batch, new_rows, printed,
                   nr_records, run, interrupts, base, commits>>
    /\ UNCHANGED idxvars

\* cursor.copy("COPY records (num, txt) FROM STDIN"): the COPY statement
\* begins a transaction
Step4CopyBegin ==
    /\ pc = "step4_begin"
    /\ tx' = "INTRANS"
    /\ pc' = "step4_copy"
    /\ UNCHANGED <<tableExists, committed, connOpen, pending, lastError, i,
                   batch_size, nr_batches, batch, new_rows, printed,
                   nr_records, records, written, run, interrupts, base,
                   generated, commits>>
    /\ UNCHANGED idxvars

\* copy.write_row(record)
Step4WriteRow ==
    /\ pc = "step4_copy"
    /\ written < records
    /\ pending' = pending + 1
    /\ written' = written + 1
    /\ UNCHANGED <<tableExists, committed, connOpen, tx, lastError, pc, i,
                   batch_size, nr_batches, batch, new_rows, printed,
                   nr_records, records, run, interrupts, base, generated,
                   commits>>
    /\ UNCHANGED idxvars

\* the end of `for record in records` and of the two with blocks: the COPY
\* ends, neither block commits
Step4CopyEnd ==
    /\ pc = "step4_copy"
    /\ written = records
    /\ pc' = "step4_print"
    /\ UNCHANGED <<tableExists, committed, connOpen, tx, pending, lastError,
                   i, batch_size, nr_batches, batch, new_rows, printed,
                   nr_records, records, written, run, interrupts, base,
                   generated, commits>>
    /\ UNCHANGED idxvars

\* print("Done ...") of Step 4
Step4Print ==
    /\ pc = "step4_print"
    /\ pc' = "close"
    /\ UNCHANGED <<tableExists, committed, connOpen, tx, pending, lastError,
                   i, batch_size, nr_batches, batch, new_rows, printed,
                   nr_records, records, written, run, interrupts, base,
                   generated, commits>>
    /\ UNCHANGED idxvars

\* conn.close()
Close ==
    /\ pc = "close"
    /\ Disconnect
    /\ pc' = "closed"
    /\ UNCHANGED <<tableExists, lastError, i, batch_size, nr_batches, batch,
                   new_rows, printed, nr_records, records, written, run,
                   interrupts, base, generated, commits>>
    /\ UNCHANGED idxvars

\* positions of the script between connect and conn.close()
Running ==
    {"create", "step1_exec", "step1_commit", "step1_print", "step2_exec",
     "step2_commit", "step2_print", "step3_exec", "step3_commit",
     "step3_print", "step4_gen", "step4_begin", "step4_copy", "step4_print",
     "close", "interrupted"}

\* the script's process stops where it is; its connection goes away
Stop ==
    /\ pc \in Running
    /\ Disconnect
    /\ pc' = "stopped"
    /\ UNCHANGED <<tableExists, lastError, i, batch_size, nr_batches, batch,
                   new_rows, printed, nr_records, records, written, run,
                   interrupts, base, generated, commits>>
    /\ UNCHANGED idxvars

\* the script is started again against the same database
Rerun ==
    /\ pc \in {"closed", "stopped"}
    /\ run < MaxRuns
    /\ run' = run + 1
    /\ pc' = "connect"
    /\ lastError' = "none"
    /\ i' = 0
    /\ batch' = 0
    /\ new_rows' = 0
    /\ printed' = -1
    /\ records' = 0
    /\ written' = 0
    /\ base' = 0
    /\ generated' = 0
    /\ commits' = 0
    /\ UNCHANGED <<tableExists, committed, connOpen, tx, pending, batch_size,
                   nr_batches, nr_records, interrupts>>
    /\ UNCHANGED idxvars

\* ------------------------------------------------------------ indices.py

\* age = i % 60
Age(k) == k % 60

\* the row of INSERT INTO students VALUES ('Student{i}', {age})
Row(k) == [name |-> <<"Student", k>>, age |-> Age(k)]

\* name LIKE 'Student%'
LikeStudent(name) == name[1] = "Student"

\* WHERE age = 20 AND name LIKE 'Student%'
Matches(r) == r.age = 20 /\ LikeStudent(r.name)

\* the rowids of tbl (1..Len) whose age is a, ascending
RowidsOfAge(tbl, a) ==
    LET F[k \in 0..Len(tbl)] ==
            IF k = 0 THEN <<>>
            ELSE IF tbl[k].age = a THEN Append(F[k - 1], k) ELSE F[k - 1]
    IN  F[Len(tbl)]

\* a variant of BuildIndex that misses the last row of the table
BuildIndexMissesLast(tbl) ==
    [a \in {tbl[k].age : k \in 1..(Len(tbl) - 1)} |->
        RowidsOfAge(SubSeq(tbl, 1, Len(tbl) - 1), a)]

\* CREATE INDEX age_index ON students (age): every age present, with the
\* rowids having it
BuildIndex(tbl) ==
    [a \in {tbl[k].age : k \in 1..Len(tbl)} |-> RowidsOfAge(tbl, a)]

\* SELECT * ... by a scan of the table in rowid order
ScanQuery(tbl) == SelectSeq(tbl, Matches)

\* SELECT * ... by age_index: the rows of the rowids the index holds for
\* age 20, filtered by the LIKE term
IndexQuery(tbl, idx) ==
    IF 20 \in DOMAIN idx
    THEN SelectSeq([k \in 1..Len(idx[20]) |-> tbl[idx[20][k]]],
                   LAMBDA r : LikeStudent(r.name))
    ELSE <<>>

\* the query as the engine runs it: by the index when there is one
RunQuery == IF hasIndex THEN IndexQuery(students, age_index)
            ELSE ScanQuery(students)

\* a variant of RemoveFile that leaves the file where it is
RemoveFileSkipped ==
    UNCHANGED <<fileExists, hasTable, students, hasIndex, age_index>>

\* os.remove(DB_NAME) when os.path.exists(DB_NAME): the file and all it
\* holds are gone
RemoveFile ==
    IF fileExists
    THEN /\ fileExists' = FALSE
         /\ hasTable' = FALSE
         /\ students' = <<>>
         /\ hasIndex' = FALSE
         /\ age_index' = <<>>
    ELSE UNCHANGED <<fileExists, hasTable, students, hasIndex, age_index>>

\* the generation sizes tried
IdxInit ==
    /\ fileExists = FALSE
    /\ hasTable = FALSE
    /\ students = <<>>
    /\ hasIndex = FALSE
    /\ age_index = <<>>
    /\ uncommitted = <<>>
    /\ ipc = "remove"
    /\ N \in 0..MaxN
    /\ si = 0
    /\ results1 = <<>>
    /\ results2 = <<>>
    /\ sqlError = "none"
    /\ irun = 1
    /\ stops = 0

\* batch_inserts.py not started
PgIdle ==
    /\ PgInit
    /\ batch_size = 1
    /\ nr_batches = 1
    /\ nr_records = 1

\* if os.path.exists(DB_NAME): os.remove(DB_NAME)
RemoveDb ==
    /\ ipc = "remove"
    /\ RemoveFile
    /\ ipc' = "connect"
    /\ UNCHANGED <<uncommitted, N, si, results1, results2, sqlError, irun, stops>>
    /\ UNCHANGED pgvars

\* connection = sqlite3.connect(DB_NAME): the file is created when missing
IdxConnect ==
    /\ ipc = "connect"
    /\ fileExists' = TRUE
    /\ uncommitted' = <<>>
    /\ ipc' = "create_table"
    /\ UNCHANGED <<hasTable, students, hasIndex, age_index, N, si, results1,
                   results2, sqlError, irun, stops>>
    /\ UNCHANGED pgvars

\* cursor.execute("CREATE TABLE students (name TEXT, age INTEGER)"): fails
\* when the table exists
CreateStudents ==
    /\ ipc = "create_table"
    /\ IF hasTable
       THEN /\ sqlError' = "OperationalError"
            /\ ipc' = "stopped"
            /\ UNCHANGED <<hasTable, si>>
       ELSE /\ hasTable' = TRUE
            /\ si' = 0
            /\ ipc' = "populate"
            /\ UNCHANGED sqlError
    /\ UNCHANGED <<fileExists, students, hasIndex, age_index, uncommitted, N,
                   results1, results2, irun, stops>>
    /\ UNCHANGED pgvars

\* one iteration of for i in range(N): the INSERT joins the open
\* transaction
Populate ==
    /\ ipc = "populate"
    /\ si < N
    /\ uncommitted' = Append(uncommitted, Row(si))
    /\ si' = si + 1
    /\ UNCHANGED <<fileExists, hasTable, students, hasIndex, age_index, ipc,
                   N, results1, results2, sqlError, irun, stops>>
    /\ UNCHANGED pgvars

\* connection.commit(); connection.close() after the loop
CommitClose ==
    /\ ipc = "populate"
    /\ si >= N
    /\ students' = students \o uncommitted
    /\ uncommitted' = <<>>
    /\ ipc' = "query1"
    /\ UNCHANGED <<fileExists, hasTable, hasIndex, age_index, N, si,
                   results1, results2, sqlError, irun, stops>>
    /\ UNCHANGED pgvars

\* Query (without index): connect, execute, fetchall, close
Query1 ==
    /\ ipc = "query1"
    /\ results1' = RunQuery
    /\ ipc' = "create_index"
    /\ UNCHANGED <<fileExists, hasTable, students, hasIndex, age_index,
                   uncommitted, N, si, results2, sqlError, irun, stops>>
    /\ UNCHANGED pgvars

\* Index creation: connect, CREATE INDEX age_index, commit, close; fails
\* when the index exists
CreateIndex ==
    /\ ipc = "create_index"
    /\ IF hasIndex
       THEN /\ sqlError' = "OperationalError"
            /\ ipc' = "stopped"
            /\ UNCHANGED <<hasIndex, age_index>>
       ELSE /\ hasIndex' = TRUE
            /\ age_index' = BuildIndex(students)
            /\ ipc' = "query2"
            /\ UNCHANGED sqlError
    /\ UNCHANGED <<fileExists, hasTable, students, uncommitted, N, si,
                   results1, results2, irun, stops>>
    /\ UNCHANGED pgvars

\* Query (with index): connect, execute, fetchall, close
Query2 ==
    /\ ipc = "query2"
    /\ results2' = RunQuery
    /\ ipc' = "done"
    /\ UNCHANGED <<fileExists, hasTable, students, hasIndex, age_index,
                   uncommitted, N, si, results1, sqlError, irun, stops>>
    /\ UNCHANGED pgvars

\* the script's process stops where it is: the open transaction is lost
IdxStop ==
    /\ ipc \in {"connect", "create_table", "populate", "query1",
                "create_index", "query2"}
    /\ uncommitted' = <<>>
    /\ ipc' = "stopped"
    /\ stops' = stops + 1
    /\ UNCHANGED <<fileExists, hasTable, students, hasIndex, age_index, N,
                   si, results1, results2, sqlError, irun>>
    /\ UNCHANGED pgvars

\* the script is started again in the same directory
IdxRerun ==
    /\ ipc \in {"done", "stopped"}
    /\ irun < MaxIdxRuns
    /\ irun' = irun + 1
    /\ ipc' = "remove"
    /\ si' = 0
    /\ results1' = <<>>
    /\ results2' = <<>>
    /\ sqlError' = "none"
    /\ UNCHANGED <<fileExists, hasTable, students, hasIndex, age_index,
                   uncommitted, N, stops>>
    /\ UNCHANGED pgvars

IdxNext ==
    \/ RemoveDb
    \/ IdxConnect
    \/ CreateStudents
    \/ Populate
    \/ CommitClose
    \/ Query1
    \/ CreateIndex
    \/ Query2
    \/ IdxStop
    \/ IdxRerun

InitIdx == PgIdle /\ IdxInit

SpecIdx == InitIdx /\ [][IdxNext]_vars

Next ==
    \/ Connect
    \/ CreateTable
    \/ Step1Exec
    \/ Step1Commit
    \/ Step1Print
    \/ Step2Exec
    \/ Step2Commit
    \/ Step2Print
    \/ Step3Exec
    \/ Step3Commit
    \/ Step3Print
    \/ Step3Fail
    \/ Step3Interrupt
    \/ OperatorCommit
    \/ RerunStep3
    \/ Step4Gen
    \/ Step4CopyBegin
    \/ Step4WriteRow
    \/ Step4CopyEnd
    \/ Step4Print
    \/ Close
    \/ Stop
    \/ Rerun

Spec == Init /\ [][Next]_vars

\* ============================================================ properties

\* the positions at which a step of batch_inserts.py has finished
StepDone == {"step1_print", "step2_print", "step3_print", "step4_print"}

\* C1: Step 3 adds exactly batch_size * nr_batches rows and Step 4 exactly
\* nr_records rows, as Steps 1 and 2 each add exactly their loop size.
C1_ConfiguredSize ==
    /\ pc = "step1_print" => Visible - base = Step1Rows
    /\ pc = "step2_print" => Visible - base = Step2Rows
    /\ pc = "step3_print" => Visible - base = batch_size * nr_batches
    /\ pc = "step4_print" => Visible - base = nr_records

\* C2: the COPY strategy is committed at completion: no transaction is open
\* when the script reaches conn.close(), and every row written with
\* copy.write_row is in the table after the connection is closed.
C2_CopyCommitted ==
    /\ pc = "close" => tx = "IDLE"
    /\ pc = "closed" => committed = base + written

C4_EmptyBeforeStep1 ==
    (pc = "step1_exec" /\ i = 0) => Visible = 0

\* C4 (amended): the table is created only when it does not exist and is
\* never dropped or emptied: no step removes a committed row or the table,
\* so Step 1 of a later run starts on the rows earlier runs committed.
C4_RowsKept ==
    [][/\ committed' >= committed
       /\ tableExists => tableExists'
       /\ pc = "create" => committed' = committed]_vars

C4_Witness ==
    /\ run = 2
    /\ pc = "step1_exec"
    /\ i = 0
    /\ committed > 0

\* the rows a completed populate loop of size n leaves, in rowid order
Populated(n) == [k \in 1..n |-> [name |-> <<"Student", k - 1>>, age |-> (k - 1) % 60]]

\* C5: however often indices.py is run, also after stopped runs, each run
\* starts from no file (the delete-on-start step removed it), creates the
\* table afresh without error, and when its populate step has completed the
\* one file holds exactly its N rows.
C5_FreshEachRun ==
    /\ ipc = "connect" => ~fileExists
    /\ ipc = "create_table" => ~hasTable /\ ~hasIndex /\ students = <<>>
    /\ ipc = "populate" => students = <<>> /\ Len(uncommitted) = si
    /\ ipc \in {"query1", "create_index", "query2", "done"} =>
           /\ fileExists
           /\ hasTable
           /\ Len(students) = N
           /\ students = Populated(N)
    /\ sqlError = "none"

C5_Witness ==
    /\ ipc = "done"
    /\ irun = 3
    /\ stops >= 1
    /\ N >= 61

\* the i in [0, N) with i mod 60 = 20
Expected == {k \in 0..(N - 1) : k % 60 = 20}

\* the elements of a result list
AsSet(seq) == {seq[k] : k \in 1..Len(seq)}

\* C6: the query age = 20 returns exactly the rows Student<i> with
\* 0 <= i < N and i mod 60 = 20, as many as there are such i; the result and
\* its count are the same after CREATE INDEX, and the rows are unchanged.
C6_QueryResult ==
    /\ ipc \in {"create_index", "query2", "done"} =>
           /\ AsSet(results1) =
                  {[name |-> <<"Student", k>>, age |-> 20] : k \in Expected}
           /\ Len(results1) = Cardinality(Expected)
    /\ ipc \in {"query2", "done"} => hasIndex /\ students = Populated(N)
    /\ ipc = "done" =>
           /\ AsSet(results2) = AsSet(results1)
           /\ Len(results2) = Len(results1)

C6_Witness ==
    /\ ipc = "done"
    /\ hasIndex
    /\ Len(results2) = 2

\* C7: after a failure inside the open transaction of the batch loop every
\* further statement is rejected until conn.commit() (or the end of the
\* connection) ends the transaction; that call adds none of the failed
\* transaction's rows, keeps every committed batch, and lets statements be
\* accepted again.
C7_AbortedTransaction ==
    [][/\ (tx = "INERROR" /\ tx' = "INERROR") =>
              /\ committed' = committed
              /\ pending' = pending
              /\ pc' \in {"interrupted", "step3_exec"}
       /\ (tx = "INERROR" /\ pc = "step3_exec" /\ pc' # "stopped") =>
              /\ pc' = "interrupted"
              /\ lastError' = "InFailedSqlTransaction"
       /\ (tx = "INERROR" /\ tx' # "INERROR") =>
              /\ tx' = "IDLE"
              /\ pending' = 0
              /\ committed' = committed
       /\ (tx # "INERROR" /\ pc = "step3_exec" /\ pc' = "step3_commit") =>
              pending' = pending + RangeLen(1, batch_size)]_vars

C7_Witness ==
    /\ lastError = "InFailedSqlTransaction"
    /\ pc = "step3_print"
    /\ committed > base

\* C8: a transaction holds the statements between two commit calls: Step 1
\* commits after every INSERT, Step 2 once after all its INSERTs, Step 3
\* once per batch; so a stop during Step 1 loses at most one inserted row
\* and a stop of Step 2 before its commit leaves none of its rows committed.
C8_TransactionScope ==
    /\ [](/\ pc \in {"step1_exec", "step1_commit", "step1_print"} =>
                /\ commits = i
                /\ committed = base + i
                /\ pending = (IF pc = "step1_commit" THEN 1 ELSE 0)
          /\ pc = "step1_print" => commits = Step1Rows
          /\ pc \in {"step2_exec", "step2_commit"} =>
                /\ commits = 0
                /\ committed = base
                /\ pending = i
          /\ pc = "step2_print" =>
                /\ commits = 1
                /\ committed = base + Step2Rows
          /\ pc = "step3_print" => commits = nr_batches)
    /\ [][/\ (pc \in {"step1_exec", "step1_commit"} /\ pc' = "stopped") =>
                 /\ committed' >= base + generated - 1
                 /\ committed' = committed
          /\ (pc \in {"step2_exec", "step2_commit"} /\ pc' = "stopped") =>
                 committed' = base]_vars

C8_Witness ==
    /\ pc = "stopped"
    /\ i = 2
    /\ generated = 2
    /\ commits = 0
    /\ committed = base

\* C10: the record count Step 3 prints equals the number of rows Step 3
\* inserted, for every batch_size >= 1 and nr_batches >= 1.
C10_PrintedCount ==
    pc = "step3_print" => Step3Printed = Visible - base

====
